---- MODULE Spec2Model ----
(***************************************************************************)
(* Price-combination search engine of Pricing_Master.                      *)
(*                                                                         *)
(* Two source files carry the engine:                                      *)
(*   PricingMaster.py      - the basic variant  (file = "PricingMaster")   *)
(*   appPricingBoletos.py  - the endpoint-pinned variant                   *)
(*                           (file = "appPricingBoletos")                  *)
(*                                                                         *)
(* Amounts are exact rationals held as integers counted in ticks, with     *)
(* TicksPerCent ticks to the cent, so that round(x, 2) is a real           *)
(* conversion: it maps a tick count to the nearest multiple of             *)
(* TicksPerCent.  A margin factor 1 + margin/100 is held as the integer    *)
(* 100 + margin and a sell-through rate as an integer percentage; both     *)
(* sides of every comparison of the code are scaled by the same factor.    *)
(***************************************************************************)
EXTENDS Integers, Sequences, FiniteSets, TLC

VARIABLES
    file,            \* which source file's functions run
    call,            \* the entry point under analysis
    sections,        \* sequence of seat counts (sec['seats']), index = rank
    global_min,      \* ticks
    global_max,      \* ticks
    margin,          \* percent; margin_factor = 1 + margin/100
    target,          \* ticks
    scenario,        \* scenario code
    pc,              \* position in the running function
    subset,          \* value returned by generate_candidate_prices
    candidate_lists, \* per-section candidate pools of the exhaustive search
    pos,             \* position of itertools.product in each pool
    more,            \* itertools.product still has a tuple to yield
    examined,        \* tuples taken from islice so far, in order
    valid,           \* valid_combos / valid
    combos,          \* value returned by the exhaustive search
    trial,           \* heuristic trials run so far
    best_combo,      \* best_combo of the heuristic search
    best_diff,       \* best_diff of the heuristic search
    history,         \* every trial's vector, in order
    scen_idx,        \* main: index of the scenario being processed
    log,             \* main: calls and returns of the searches, in order
    top_combos,      \* main: sorted(...)[:3] of the current scenario
    outputs          \* main: per scenario, the vectors shown

vars == << file, call, sections, global_min, global_max, margin, target,
           scenario, pc, subset, candidate_lists, pos, more, examined, valid,
           combos, trial, best_combo, best_diff, history, scen_idx,
           log, top_combos, outputs >>

inputs == << file, sections, global_min, global_max, margin, target >>

(***************************************************************************)
(* Bounds of the model and constants of the program.                       *)
(***************************************************************************)
TicksPerCent == 5      \* resolution of unrounded amounts
MaxSections == 4       \* most sections of a direct call
EnumCap == 10          \* stands for the 100_000 of itertools.islice
NumTrials == 2         \* stands for the 10_000 of range(10_000)
num_candidates == 9
TopK == 3

None == << >>          \* Python's None (no real vector is empty: N >= 1)
Inf == -1              \* float('inf'): larger than every difference

Files == {"PricingMaster", "appPricingBoletos"}
Scenarios == {"alta", "moderada", "baja", "otro"}   \* "otro": unrecognized

Range(s) == {s[i] : i \in 1..Len(s)}
Abs(x) == IF x < 0 THEN -x ELSE x
Min(a, b) == IF a <= b THEN a ELSE b
margin_factor100(m) == 100 + m

(***************************************************************************)
(* round(x, 2) for x = n/d ticks (d > 0): nearest cent, a tie going to the  *)
(* even cent, returned in ticks.                                           *)
(***************************************************************************)
RoundHalfEven(n, d) ==
    LET q == n \div d
        r == n % d
    IN  IF 2 * r < d THEN q
        ELSE IF 2 * r > d THEN q + 1
        ELSE IF q % 2 = 0 THEN q ELSE q + 1

round2(n, d) == TicksPerCent * RoundHalfEven(n, d * TicksPerCent)

(***************************************************************************)
(* generate_candidate_prices, one definition per source file.              *)
(***************************************************************************)
Grid(gmin, gmax) ==
    [i \in 1..num_candidates |->
        round2((num_candidates - 1) * gmin + (i - 1) * (gmax - gmin),
               num_candidates - 1)]

PM_generate_candidate_prices(gmin, gmax, scen) ==
    IF gmax = gmin THEN << gmin >>
    ELSE LET candidates == Grid(gmin, gmax)
         IN  IF scen = "alta" THEN SubSeq(candidates, 7, num_candidates)
             ELSE IF scen = "moderada" THEN SubSeq(candidates, 4, 6)
             ELSE IF scen = "baja" THEN SubSeq(candidates, 1, 3)
             ELSE candidates

generate_candidate_prices(gmin, gmax, scen) ==
    IF gmax <= gmin THEN << gmin >>
    ELSE LET candidates == Grid(gmin, gmax)
         IN  CASE scen = "alta" -> SubSeq(candidates, 7, num_candidates)
               [] scen = "moderada" -> SubSeq(candidates, 4, 6)
               [] scen = "baja" -> SubSeq(candidates, 1, 3)
               [] OTHER -> candidates

(***************************************************************************)
(* The constraint check both searches apply to a tuple:                    *)
(*   all(combo[i] >= margin_factor * combo[i+1] for i in range(len-1))     *)
(***************************************************************************)
\* mutants: the check stops one pair short / asks for strictly more
IsValid_short(combo, m) ==
    \A i \in 1..(Len(combo) - 2) :
        100 * combo[i] >= margin_factor100(m) * combo[i + 1]

IsValid_strict(combo, m) ==
    \A i \in 1..(Len(combo) - 1) :
        100 * combo[i] > margin_factor100(m) * combo[i + 1]

IsValid(combo, m) ==
    \A i \in 1..(Len(combo) - 1) :
        100 * combo[i] >= margin_factor100(m) * combo[i + 1]

(***************************************************************************)
(* Candidate pools of the exhaustive search.                               *)
(***************************************************************************)
generate_combinations_pools(n, scen, gmin, gmax) ==
    [i \in 1..n |-> PM_generate_candidate_prices(gmin, gmax, scen)]

\* mutant: the first section is not pinned
generate_valid_combinations_pools_unpinned(n, scen, gmin, gmax) ==
    [i \in 1..n |->
        IF i = n THEN << round2(gmin, 1) >>
        ELSE generate_candidate_prices(gmin, gmax, scen)]

generate_valid_combinations_pools(n, scen, gmin, gmax) ==
    [i \in 1..n |->
        IF i = 1 THEN << round2(gmax, 1) >>
        ELSE IF i = n THEN << round2(gmin, 1) >>
        ELSE generate_candidate_prices(gmin, gmax, scen)]

Pools(f, n, scen, gmin, gmax) ==
    IF f = "PricingMaster" THEN generate_combinations_pools(n, scen, gmin, gmax)
    ELSE generate_valid_combinations_pools(n, scen, gmin, gmax)

(***************************************************************************)
(* itertools.product: the tuple at a position, and the next position (the  *)
(* last pool advances first, a pool that runs out resets and carries to    *)
(* the pool on its left); FALSE in the second field: no tuple is left.     *)
(***************************************************************************)
TupleAt(pools, p) == [i \in 1..Len(pools) |-> pools[i][p[i]]]

RECURSIVE Advance(_, _, _)
Advance(pools, p, i) ==
    IF i = 0 THEN << p, FALSE >>
    ELSE IF p[i] < Len(pools[i]) THEN << [p EXCEPT ![i] = p[i] + 1], TRUE >>
    ELSE Advance(pools, [p EXCEPT ![i] = 1], i - 1)

\* mutant: the first pool advances first
RECURSIVE AdvanceLeft(_, _, _)
AdvanceLeft(pools, p, i) ==
    IF i > Len(pools) THEN << p, FALSE >>
    ELSE IF p[i] < Len(pools[i]) THEN << [p EXCEPT ![i] = p[i] + 1], TRUE >>
    ELSE AdvanceLeft(pools, [p EXCEPT ![i] = 1], i + 1)

product_next_leftmost(pools, p) == AdvanceLeft(pools, p, 1)

product_next(pools, p) == Advance(pools, p, Len(pools))

(***************************************************************************)
(* Revenue: sum(sec['seats'] * sell_rate * price for price, sec in zip),   *)
(* in hundredths of a tick; zip stops at the shorter sequence.             *)
(***************************************************************************)
sell_rates(scen) ==
    CASE scen = "alta" -> 98
      [] scen = "moderada" -> 90
      [] scen = "baja" -> 85
      [] OTHER -> 95

RECURSIVE ZipSum(_, _, _, _)
ZipSum(combo, secs, rate, k) ==
    IF k = 0 THEN 0
    ELSE ZipSum(combo, secs, rate, k - 1) + secs[k] * rate * combo[k]

Revenue(combo, secs, rate) ==
    ZipSum(combo, secs, rate, Min(Len(combo), Len(secs)))

compute_revenue_for_combo(combo, secs, scen) ==
    Revenue(combo, secs, sell_rates(scen))

(***************************************************************************)
(* random.uniform(a, b) for rational a, b given as << numerator,           *)
(* denominator >>: a + (b - a) * random() lies between the two bounds in   *)
(* whichever order they come.  The draw is sampled at every whole tick of  *)
(* that interval.                                                          *)
(***************************************************************************)
LeqQ(a, b) == a[1] * b[2] <= b[1] * a[2]
FloorQ(a) == a[1] \div a[2]
CeilQ(a) == -((-a[1]) \div a[2])
MaxQ(a, b) == IF LeqQ(a, b) THEN b ELSE a

uniform(a, b) ==
    IF LeqQ(a, b) THEN CeilQ(a)..FloorQ(b) ELSE CeilQ(b)..FloorQ(a)

(***************************************************************************)
(* The unrounded price chains one trial can draw.                          *)
(***************************************************************************)
RECURSIVE heuristic_search_draws(_, _, _, _)
heuristic_search_draws(prev_price, k, gmin, m) ==
    IF k = 0 THEN { << >> }
    ELSE UNION {
           { << price >> \o rest :
               rest \in heuristic_search_draws(price, k - 1, gmin, m) } :
           price \in uniform(<< gmin, 1 >>,
                             << 100 * prev_price, margin_factor100(m) >>) }

RECURSIVE heuristic_price_search_draws(_, _, _, _)
heuristic_price_search_draws(prev_price, k, gmin, m) ==
    IF k <= 0 THEN { << >> }
    ELSE LET min_price == MaxQ(<< gmin, 1 >>,
                               << 95 * prev_price, margin_factor100(m) >>)
             max_price == << 100 * prev_price, margin_factor100(m) >>
         IN  UNION {
               { << price >> \o rest :
                   rest \in heuristic_price_search_draws(price, k - 1, gmin, m) } :
               price \in uniform(min_price, max_price) }

Rounded(draws) == [i \in 1..Len(draws) |-> round2(draws[i], 1)]

heuristic_search_combo(draws) == Rounded(draws)

heuristic_price_search_combo(draws, gmin, gmax) ==
    << round2(gmax, 1) >> \o Rounded(draws) \o << round2(gmin, 1) >>

TrialCombos(f, n, gmin, gmax, m) ==
    IF f = "PricingMaster"
    THEN { heuristic_search_combo(d) :
             d \in heuristic_search_draws(gmax, n, gmin, m) }
    ELSE { heuristic_price_search_combo(d, gmin, gmax) :
             d \in heuristic_price_search_draws(gmax, n - 2, gmin, m) }

heuristic_search_diff(combo, secs, tgt) ==
    Abs(compute_revenue_for_combo(combo, secs, "alta") - 100 * tgt)

heuristic_price_search_diff(combo, secs, tgt, scen) ==
    Abs(Revenue(combo, secs, sell_rates(scen)) - 100 * tgt)

TrialDiff(f, combo, secs, tgt, scen) ==
    IF f = "PricingMaster" THEN heuristic_search_diff(combo, secs, tgt)
    ELSE heuristic_price_search_diff(combo, secs, tgt, scen)

\* mutant: a tie replaces the best
Improves_on_tie(diff, best) == best = Inf \/ diff <= best

Improves(diff, best) == best = Inf \/ diff < best

(***************************************************************************)
(* Ranking of main: sorted(combos, key=...)[:3], the key being the         *)
(* distance of the revenue at the fixed rate 0.95 to the target.  sorted   *)
(* is stable: an element goes after every element whose key is not larger. *)
(***************************************************************************)
RankRate == 95

rank_key(x, secs, tgt) == Abs(Revenue(x, secs, RankRate) - 100 * tgt)

\* mutant: an element goes before the elements of equal key
RECURSIVE InsertByKey_unstable(_, _, _, _, _)
InsertByKey_unstable(s, x, secs, tgt, i) ==
    IF i > Len(s) THEN Append(s, x)
    ELSE IF rank_key(s[i], secs, tgt) < rank_key(x, secs, tgt)
         THEN InsertByKey_unstable(s, x, secs, tgt, i + 1)
         ELSE SubSeq(s, 1, i - 1) \o << x >> \o SubSeq(s, i, Len(s))

RECURSIVE InsertByKey(_, _, _, _, _)
InsertByKey(s, x, secs, tgt, i) ==
    IF i > Len(s) THEN Append(s, x)
    ELSE IF rank_key(s[i], secs, tgt) <= rank_key(x, secs, tgt)
         THEN InsertByKey(s, x, secs, tgt, i + 1)
         ELSE SubSeq(s, 1, i - 1) \o << x >> \o SubSeq(s, i, Len(s))

RECURSIVE sorted(_, _, _, _)
sorted(cs, secs, tgt, k) ==
    IF k = 0 THEN << >>
    ELSE InsertByKey(sorted(cs, secs, tgt, k - 1), cs[k], secs, tgt, 1)

select_top(cs, secs, tgt) ==
    LET s == sorted(cs, secs, tgt, Len(cs))
    IN  SubSeq(s, 1, Min(TopK, Len(s)))

(***************************************************************************)
(* Inputs of the direct calls.                                             *)
(***************************************************************************)
Margins == {5, 20}
SeatPatterns(n) ==
    { [i \in 1..n |-> 500], [i \in 1..n |-> IF i = 1 THEN 100 ELSE 500] }

CandidateBounds ==
    { << 20, 20 >>, << 20, 13 >>, << 23, 20 >>, << 100, 50 >>, << 0, -8 >>,
      << 20, 100 >>, << 22, 61 >>, << 0, 40 >>, << 52, 53 >>, << 21, 23 >>,
      << -40, 40 >>, << 250, 1000 >>, << 3, 98 >> }

ExhaustiveBounds ==
    { << 20, 100 >>, << 22, 61 >>, << 0, 40 >>, << 20, 20 >>, << 52, 53 >>,
      << 100, 50 >> }

\* targets in ticks; at 12250 or 104125 two different vectors can be equally far
HeuristicTargets == {0, 12250, 104125}

\* << global_min, global_max, margin >> of the heuristic calls, per file
HeuristicInputs(f) ==
    IF f = "PricingMaster"
    THEN { << 20, 30, 5 >>, << 20, 25, 20 >>, << 21, 27, 10 >> }
    ELSE { << 20, 35, 5 >>, << 20, 100, 5 >>, << 20, 100, 20 >>,
           << 22, 97, 5 >>, << 23, 44, 20 >> }

Idle ==
    /\ pc = "idle"
    /\ subset = << >>
    /\ candidate_lists = << >>
    /\ pos = << >>
    /\ more = FALSE
    /\ examined = << >>
    /\ valid = << >>
    /\ combos = << >>
    /\ trial = 0
    /\ best_combo = None
    /\ best_diff = Inf
    /\ history = << >>
    /\ scen_idx = 0
    /\ log = << >>
    /\ top_combos = << >>
    /\ outputs = << >>

InitCandidates ==
    /\ call = "candidates"
    /\ file \in Files
    /\ scenario \in Scenarios
    /\ \E b \in CandidateBounds : global_min = b[1] /\ global_max = b[2]
    /\ sections = << 500 >>
    /\ margin = 5
    /\ target = 0
    /\ Idle

InitExhaustive ==
    /\ call = "exhaustive"
    /\ file \in Files
    /\ scenario \in Scenarios
    /\ \E b \in ExhaustiveBounds : global_min = b[1] /\ global_max = b[2]
    /\ \E n \in 1..MaxSections : sections = [i \in 1..n |-> 500]
    /\ margin \in Margins
    /\ target = 0
    /\ Idle

InitHeuristic ==
    /\ call = "heuristic"
    /\ file \in Files
    /\ scenario \in (IF file = "PricingMaster" THEN {"alta", "baja"} ELSE Scenarios)
    /\ \E b \in HeuristicInputs(file) :
         global_min = b[1] /\ global_max = b[2] /\ margin = b[3]
    /\ \E n \in 1..MaxSections : sections \in SeatPatterns(n)
    /\ target \in HeuristicTargets
    /\ Idle

Init == InitCandidates \/ InitExhaustive \/ InitHeuristic

(***************************************************************************)
(* generate_candidate_prices called on its own.                            *)
(***************************************************************************)
CallCandidates ==
    /\ pc = "idle" /\ call = "candidates"
    /\ subset' = IF file = "PricingMaster"
                 THEN PM_generate_candidate_prices(global_min, global_max, scenario)
                 ELSE generate_candidate_prices(global_min, global_max, scenario)
    /\ pc' = "cand_returned"
    /\ UNCHANGED << file, call, sections, global_min, global_max, margin,
                    target, scenario, candidate_lists, pos, more, examined,
                    valid, combos, trial, best_combo, best_diff, history,
                    scen_idx, log, top_combos, outputs >>

(***************************************************************************)
(* generate_combinations / generate_valid_combinations.                    *)
(***************************************************************************)
EnterExhaustive(scen) ==
    LET pools == Pools(file, Len(sections), scen, global_min, global_max)
    IN  /\ candidate_lists' = pools
        /\ pos' = [i \in 1..Len(pools) |-> 1]
        /\ more' = TRUE
        /\ examined' = << >>
        /\ valid' = << >>
        /\ combos' = << >>
        /\ pc' = "enumerate"

CallExhaustive ==
    /\ pc = "idle" /\ call = "exhaustive"
    /\ EnterExhaustive(scenario)
    /\ UNCHANGED << file, call, sections, global_min, global_max, margin,
                    target, scenario, subset, trial, best_combo, best_diff,
                    history, scen_idx, log, top_combos, outputs >>

\* one iteration of: for combo in islice(product(*candidates), 100_000)
ExamineCombo ==
    /\ pc = "enumerate"
    /\ more /\ Len(examined) < EnumCap
    /\ LET combo == TupleAt(candidate_lists, pos)
           nxt == product_next(candidate_lists, pos)
       IN  /\ examined' = Append(examined, combo)
           /\ valid' = IF IsValid(combo, margin) THEN Append(valid, combo)
                       ELSE valid
           /\ pos' = nxt[1]
           /\ more' = nxt[2]
    /\ UNCHANGED << file, call, sections, global_min, global_max, margin,
                    target, scenario, pc, subset, candidate_lists, combos,
                    trial, best_combo, best_diff, history, scen_idx, log,
                    top_combos, outputs >>

ReturnExhaustive ==
    /\ pc = "enumerate"
    /\ ~more \/ Len(examined) >= EnumCap
    /\ combos' = valid
    /\ pc' = "exh_returned"
    /\ log' = IF call = "main"
              THEN Append(log, << "exhaustive_returned", scen_idx, valid = << >> >>)
              ELSE log
    /\ UNCHANGED << file, call, sections, global_min, global_max, margin,
                    target, scenario, subset, candidate_lists, pos, more,
                    examined, valid, trial, best_combo, best_diff, history,
                    scen_idx, top_combos, outputs >>

(***************************************************************************)
(* heuristic_search / heuristic_price_search.                              *)
(***************************************************************************)
EnterHeuristic ==
    /\ trial' = 0
    /\ best_combo' = None
    /\ best_diff' = Inf
    /\ history' = << >>
    /\ pc' = "trials"

CallHeuristic ==
    /\ pc = "idle" /\ call = "heuristic"
    /\ EnterHeuristic
    /\ UNCHANGED << file, call, sections, global_min, global_max, margin,
                    target, scenario, subset, candidate_lists, pos, more,
                    examined, valid, combos, scen_idx, log, top_combos,
                    outputs >>

\* one iteration of: for _ in range(10_000)
Trial ==
    /\ pc = "trials"
    /\ trial < NumTrials
    /\ \E combo \in TrialCombos(file, Len(sections), global_min, global_max, margin) :
         LET diff == TrialDiff(file, combo, sections, target, scenario)
             take == IsValid(combo, margin) /\ Improves(diff, best_diff)
         IN  /\ best_combo' = IF take THEN combo ELSE best_combo
             /\ best_diff' = IF take THEN diff ELSE best_diff
             /\ history' = Append(history, combo)
    /\ trial' = trial + 1
    /\ UNCHANGED << file, call, sections, global_min, global_max, margin,
                    target, scenario, pc, subset, candidate_lists, pos, more,
                    examined, valid, combos, scen_idx, log, top_combos,
                    outputs >>

ReturnHeuristic ==
    /\ pc = "trials"
    /\ trial >= NumTrials
    /\ pc' = "heur_returned"
    /\ log' = IF call = "main"
              THEN Append(log, << "heuristic_returned", scen_idx, best_combo = None >>)
              ELSE log
    /\ UNCHANGED << file, call, sections, global_min, global_max, margin,
                    target, scenario, subset, candidate_lists, pos, more,
                    examined, valid, combos, trial, best_combo, best_diff,
                    history, scen_idx, top_combos, outputs >>

Next ==
    \/ CallCandidates
    \/ CallExhaustive
    \/ ExamineCombo
    \/ ReturnExhaustive
    \/ CallHeuristic
    \/ Trial
    \/ ReturnHeuristic

Spec == Init /\ [][Next]_vars

(***************************************************************************)
(* main: for each scenario, the exhaustive search, the heuristic search if *)
(* it found nothing, then (appPricingBoletos) the ranking and the display. *)
(* The inputs respect the widgets: global_max >= global_min + 0.01,        *)
(* target >= 1000.0, seats within 10..10000 / 100..10000, at least two     *)
(* sections in appPricingBoletos.                                          *)
(***************************************************************************)
MainScenarios == << "alta", "moderada", "baja" >>

\* << global_min, global_max, margin, target >>
MainInputs(f) ==
    IF f = "PricingMaster"
    THEN { << 20, 30, 5, 500000 >>, << 20, 30, 10, 600000 >> }
    ELSE { << 20, 30, 20, 500000 >>, << 20, 30, 5, 500000 >>,
           << 0, 80, 5, 902500 >>, << 20, 100, 5, 1000000 >> }

MainSeats(n) ==
    { [i \in 1..n |-> 10000], [i \in 1..n |-> IF i = 2 THEN 5000 ELSE 10000] }

InitMain ==
    /\ call = "main"
    /\ file \in Files
    /\ \E b \in MainInputs(file) :
         /\ global_min = b[1] /\ global_max = b[2]
         /\ margin = b[3] /\ target = b[4]
    /\ \E n \in (IF file = "PricingMaster" THEN 1 ELSE 2)..MaxSections :
         sections \in MainSeats(n)
    /\ scenario = "alta"
    /\ pc = "main_loop"
    /\ subset = << >>
    /\ candidate_lists = << >>
    /\ pos = << >>
    /\ more = FALSE
    /\ examined = << >>
    /\ valid = << >>
    /\ combos = << >>
    /\ trial = 0
    /\ best_combo = None
    /\ best_diff = Inf
    /\ history = << >>
    /\ scen_idx = 1
    /\ log = << >>
    /\ top_combos = << >>
    /\ outputs = << >>

\* for scenario_name, scenario_code in scenarios.items(): combos = generate_...(...)
MainNextScenario ==
    /\ call = "main" /\ pc = "main_loop"
    /\ scen_idx <= Len(MainScenarios)
    /\ scenario' = MainScenarios[scen_idx]
    /\ EnterExhaustive(MainScenarios[scen_idx])
    /\ top_combos' = << >>
    /\ log' = Append(log, << "exhaustive_called", scen_idx >>)
    /\ UNCHANGED << file, call, sections, global_min, global_max, margin,
                    target, subset, trial, best_combo, best_diff, history,
                    scen_idx, outputs >>

\* mutant: the heuristic search runs whatever the exhaustive search returned
MainFallback_always ==
    /\ call = "main" /\ pc = "exh_returned"
    /\ EnterHeuristic
    /\ log' = Append(log, << "heuristic_called", scen_idx >>)
    /\ candidate_lists' = << >> /\ pos' = << >> /\ more' = FALSE
    /\ examined' = << >> /\ valid' = << >>
    /\ UNCHANGED << file, call, sections, global_min, global_max, margin,
                    target, scenario, subset, combos, scen_idx, top_combos,
                    outputs >>

\* if not combos: best_combo = heuristic_...(...)
MainFallback ==
    /\ call = "main" /\ pc = "exh_returned"
    /\ combos = << >>
    /\ EnterHeuristic
    /\ log' = Append(log, << "heuristic_called", scen_idx >>)
    /\ candidate_lists' = << >> /\ pos' = << >> /\ more' = FALSE
    /\ examined' = << >> /\ valid' = << >>
    /\ UNCHANGED << file, call, sections, global_min, global_max, margin,
                    target, scenario, subset, combos, scen_idx, top_combos,
                    outputs >>

\* appPricingBoletos: combos = [best_combo] if best_combo else []
MainWrapBest ==
    /\ call = "main" /\ pc = "heur_returned"
    /\ file = "appPricingBoletos"
    /\ combos' = IF best_combo # << >> THEN << best_combo >> ELSE << >>
    /\ pc' = "main_select"
    /\ trial' = 0 /\ best_diff' = Inf /\ history' = << >>
    /\ UNCHANGED << file, call, sections, global_min, global_max, margin,
                    target, scenario, subset, candidate_lists, pos, more,
                    examined, valid, best_combo, scen_idx, log, top_combos,
                    outputs >>

\* appPricingBoletos: not combos is false, on to: if combos:
MainKeepCombos ==
    /\ call = "main" /\ pc = "exh_returned"
    /\ file = "appPricingBoletos"
    /\ combos # << >>
    /\ pc' = "main_select"
    /\ candidate_lists' = << >> /\ pos' = << >> /\ more' = FALSE
    /\ examined' = << >> /\ valid' = << >>
    /\ UNCHANGED << file, call, sections, global_min, global_max, margin,
                    target, scenario, subset, combos, trial, best_combo,
                    best_diff, history, scen_idx, log, top_combos, outputs >>

\* appPricingBoletos: if combos: top_combos = sorted(combos, key=...)[:3]
MainRank ==
    /\ call = "main" /\ pc = "main_select"
    /\ combos # << >>
    /\ top_combos' = select_top(combos, sections, target)
    /\ pc' = "main_show"
    /\ UNCHANGED << file, call, sections, global_min, global_max, margin,
                    target, scenario, subset, candidate_lists, pos, more,
                    examined, valid, combos, trial, best_combo, best_diff,
                    history, scen_idx, log, outputs >>

\* appPricingBoletos: the plot, report_data and the options of top_combos
MainShow ==
    /\ call = "main" /\ pc = "main_show"
    /\ outputs' = Append(outputs, top_combos)
    /\ scen_idx' = scen_idx + 1
    /\ pc' = "main_loop"
    /\ UNCHANGED << file, call, sections, global_min, global_max, margin,
                    target, scenario, subset, candidate_lists, pos, more,
                    examined, valid, combos, trial, best_combo, best_diff,
                    history, log, top_combos >>

\* appPricingBoletos: else: st.error("No se encontraron combinaciones ...")
MainNoResult ==
    /\ call = "main" /\ pc = "main_select"
    /\ combos = << >>
    /\ outputs' = Append(outputs, << >>)
    /\ scen_idx' = scen_idx + 1
    /\ pc' = "main_loop"
    /\ UNCHANGED << file, call, sections, global_min, global_max, margin,
                    target, scenario, subset, candidate_lists, pos, more,
                    examined, valid, combos, trial, best_combo, best_diff,
                    history, log, top_combos >>

\* PricingMaster: if best_combo: st.success(...), st.metric(...); the locals
\* of the search that returned are gone
MainShowBest ==
    /\ call = "main" /\ pc = "heur_returned"
    /\ file = "PricingMaster"
    /\ outputs' = Append(outputs, IF best_combo # << >> THEN << best_combo >>
                                  ELSE << >>)
    /\ scen_idx' = scen_idx + 1
    /\ pc' = "main_loop"
    /\ trial' = 0 /\ best_diff' = Inf /\ history' = << >>
    /\ UNCHANGED << file, call, sections, global_min, global_max, margin,
                    target, scenario, subset, candidate_lists, pos, more,
                    examined, valid, combos, best_combo, log, top_combos >>

\* PricingMaster: combos is not empty; the source processes it no further
\* ("# ... (procesar y mostrar resultados)"), nothing is shown
MainSkip ==
    /\ call = "main" /\ pc = "exh_returned"
    /\ file = "PricingMaster"
    /\ combos # << >>
    /\ outputs' = Append(outputs, << >>)
    /\ scen_idx' = scen_idx + 1
    /\ pc' = "main_loop"
    /\ candidate_lists' = << >> /\ pos' = << >> /\ more' = FALSE
    /\ examined' = << >> /\ valid' = << >>
    /\ UNCHANGED << file, call, sections, global_min, global_max, margin,
                    target, scenario, subset, combos, trial, best_combo,
                    best_diff, history, log, top_combos >>

MainDone ==
    /\ call = "main" /\ pc = "main_loop"
    /\ scen_idx > Len(MainScenarios)
    /\ pc' = "main_done"
    /\ UNCHANGED << file, call, sections, global_min, global_max, margin,
                    target, scenario, subset, candidate_lists, pos, more,
                    examined, valid, combos, trial, best_combo, best_diff,
                    history, scen_idx, log, top_combos, outputs >>

NextMain ==
    \/ MainNextScenario
    \/ ExamineCombo
    \/ ReturnExhaustive
    \/ MainFallback
    \/ Trial
    \/ ReturnHeuristic
    \/ MainWrapBest
    \/ MainKeepCombos
    \/ MainRank
    \/ MainShow
    \/ MainNoResult
    \/ MainShowBest
    \/ MainSkip
    \/ MainDone

SpecMain == InitMain /\ [][NextMain]_vars

(***************************************************************************)
(* What the claims speak of.                                               *)
(***************************************************************************)
N == Len(sections)

\* the vectors a search has returned
ReturnedVectors ==
    IF pc = "exh_returned" THEN Range(combos)
    ELSE IF pc = "heur_returned" /\ best_combo # None THEN { best_combo }
    ELSE { }

MarginHolds(v) ==
    \A i \in 1..(Len(v) - 1) : 100 * v[i] >= (100 + margin) * v[i + 1]

\* the k-th tuple of the Cartesian product in lexicographic order
RECURSIVE SizeFrom(_, _)
SizeFrom(pools, i) ==
    IF i > Len(pools) THEN 1 ELSE Len(pools[i]) * SizeFrom(pools, i + 1)

ProductSize(pools) == SizeFrom(pools, 1)

LexTuple(pools, k) ==
    [i \in 1..Len(pools) |->
        pools[i][(((k - 1) \div SizeFrom(pools, i + 1)) % Len(pools[i])) + 1]]

RECURSIVE ProductFrom(_, _)
ProductFrom(pools, i) ==
    IF i > Len(pools) THEN { << >> }
    ELSE { << x >> \o rest : x \in Range(pools[i]), rest \in ProductFrom(pools, i + 1) }

ProductSet(pools) == ProductFrom(pools, 1)

\* C1: every vector a search returns satisfies v[i] >= margin_factor * v[i+1]
\* for every adjacent pair, on the returned (rounded) prices.
C1_MarginInvariant == \A v \in ReturnedVectors : MarginHolds(v)

\* a heuristic search returned a vector of three or more prices after a trial
\* whose vector failed the margin check
C1_Witness ==
    /\ pc = "heur_returned" /\ best_combo # None /\ Len(best_combo) >= 3
    /\ \E j \in 1..Len(history) : ~MarginHolds(history[j])

\* C2: with global_max > global_min and margin_factor > 1, every price of
\* every returned vector lies in [global_min, global_max].
C2_PricesWithinBounds ==
    (global_max > global_min /\ margin > 0) =>
        \A v \in ReturnedVectors : \A i \in 1..Len(v) :
            global_min <= v[i] /\ v[i] <= global_max

\* C3: every returned vector has exactly one price per section, N >= 1.
C3_OnePricePerSection ==
    N >= 1 => \A v \in ReturnedVectors : Len(v) = N

\* C4 as stated: the exhaustive search returns every tuple of the product
\* that passes the margin check, also when the product exceeds the cap.
C4_EveryValidTupleReturned ==
    pc = "exh_returned" =>
        \A t \in ProductSet(candidate_lists) :
            MarginHolds(t) => t \in Range(combos)

\* C4 as amended: every tuple among the first min(cap, size of the product)
\* tuples of the product in lexicographic order that passes the margin check
\* is returned; when the product holds no more tuples than the cap, that is
\* every valid tuple of the product.
C4_EveryExaminedValidTupleReturned ==
    pc = "exh_returned" =>
        /\ \A k \in 1..Min(EnumCap, ProductSize(candidate_lists)) :
              MarginHolds(LexTuple(candidate_lists, k))
                  => LexTuple(candidate_lists, k) \in Range(combos)
        /\ ProductSize(candidate_lists) <= EnumCap =>
              \A t \in ProductSet(candidate_lists) :
                  MarginHolds(t) => t \in Range(combos)

\* the search returned a valid tuple although the product exceeds the cap
C4_Witness ==
    /\ pc = "exh_returned"
    /\ ProductSize(candidate_lists) > EnumCap
    /\ combos # << >>

\* C5: the search examines exactly the first min(cap, size of the product)
\* tuples of the product in lexicographic order (last section fastest), the
\* cap counting examined tuples, and the returned tuples keep that order.
C5_ExaminedPrefix ==
    /\ Len(examined) <= EnumCap
    /\ pc = "exh_returned" =>
        /\ examined = [k \in 1..Min(EnumCap, ProductSize(candidate_lists)) |->
                          LexTuple(candidate_lists, k)]
        /\ combos = SelectSeq(examined, MarginHolds)

\* the cap stopped an enumeration that had found fewer valid tuples than the
\* cap, some tuples being valid and some not
C5_Witness ==
    /\ pc = "exh_returned"
    /\ ProductSize(candidate_lists) > EnumCap
    /\ Len(examined) = EnumCap
    /\ Len(combos) > 0 /\ Len(combos) < EnumCap
    /\ N >= 3

\* C6: in appPricingBoletos, for N >= 2, every returned vector starts at
\* round(global_max, 2) and ends at round(global_min, 2); the interior prices
\* of the exhaustive search come from the scenario window of the grid.
C6_EndpointPinning ==
    (file = "appPricingBoletos" /\ N >= 2) =>
        \A v \in ReturnedVectors :
            /\ v[1] = round2(global_max, 1)
            /\ v[Len(v)] = round2(global_min, 1)
            /\ pc = "exh_returned" =>
                  \A i \in 2..(Len(v) - 1) :
                      v[i] \in Range(generate_candidate_prices(global_min, global_max, scenario))

\* the pinned heuristic returned a vector with interior draws whose first
\* price is the rounded, not the raw, global_max
C6_Witness ==
    /\ file = "appPricingBoletos" /\ pc = "heur_returned"
    /\ best_combo # None /\ N >= 4
    /\ best_combo[1] # global_max

\* C9: if global_max <= global_min, generate_candidate_prices returns
\* [global_min], whatever the scenario, in both source files.
C9_DegenerateBounds ==
    (pc = "cand_returned" /\ global_max <= global_min) =>
        subset = << global_min >>

\* the rate, distance and passing trials the statement on the heuristic speaks of
C10_Rate == IF file = "PricingMaster" THEN 98 ELSE sell_rates(scenario)

C10_Distance(v) == Abs(Revenue(v, sections, C10_Rate) - 100 * target)

C10_Passing == { j \in 1..Len(history) : MarginHolds(history[j]) }

\* C10: the heuristic search returns after exactly NumTrials trials: a search
\* under way can always run its next trial or return, every trial counts one
\* up to NumTrials, and it returns only at NumTrials.  It returns none iff no
\* trial's vector passed the margin check, and otherwise the vector of the
\* earliest passing trial whose distance to the target is minimal, the revenue
\* taken at the scenario's rate in heuristic_price_search and at the High rate
\* 0.98 in heuristic_search.
C10_BestOfAllTrials ==
    /\ trial = Len(history) /\ trial <= NumTrials
    /\ pc = "trials" => ENABLED (Trial \/ ReturnHeuristic)
    /\ pc = "trials" /\ trial < NumTrials => ~ENABLED ReturnHeuristic
    /\ pc = "heur_returned" =>
        /\ trial = NumTrials
        /\ best_combo = None <=> C10_Passing = { }
        /\ C10_Passing # { } =>
              \E j \in C10_Passing :
                  /\ best_combo = history[j]
                  /\ \A i \in C10_Passing :
                        /\ C10_Distance(history[j]) <= C10_Distance(history[i])
                        /\ i < j => C10_Distance(history[j]) < C10_Distance(history[i])

\* a search returned the vector of its first trial although a later passing
\* trial drew a different vector that is exactly as far from the target
C10_Witness ==
    /\ pc = "heur_returned" /\ best_combo # None
    /\ \E i, j \in C10_Passing :
          /\ i < j
          /\ best_combo = history[i]
          /\ history[j] # history[i]
          /\ C10_Distance(history[j]) = C10_Distance(history[i])

\* what the log says of scenario k, and the three parts of the statement on main
C7_ExhaustiveEmpty(k) == << "exhaustive_returned", k, TRUE >> \in Range(log)
C7_ExhaustiveFound(k) == << "exhaustive_returned", k, FALSE >> \in Range(log)
C7_HeuristicCalled(k) == << "heuristic_called", k >> \in Range(log)
C7_HeuristicNone(k) == << "heuristic_returned", k, TRUE >> \in Range(log)

C7_Order ==
    /\ \A p \in 1..Len(log) :
          log[p][1] = "heuristic_called" =>
              p > 1 /\ log[p - 1] = << "exhaustive_returned", log[p][2], TRUE >>
    /\ \A k \in 1..Len(MainScenarios) :
          C7_ExhaustiveFound(k) => ~C7_HeuristicCalled(k)
    /\ pc \in {"trials", "heur_returned"} => C7_ExhaustiveEmpty(scen_idx)

C7_Outcome ==
    \A k \in 1..Len(outputs) :
        /\ Len(outputs[k]) <= 3
        /\ C7_HeuristicCalled(k) => Len(outputs[k]) <= 1
        /\ (file = "appPricingBoletos" \/ C7_HeuristicCalled(k)) =>
              (outputs[k] = << >> <=> (C7_ExhaustiveEmpty(k) /\ C7_HeuristicNone(k)))

C7_Independent ==
    /\ inputs' = inputs
    /\ pc' = "enumerate" =>
          candidate_lists' = Pools(file, N, MainScenarios[scen_idx], global_min, global_max)

C8_Distance(v) == Abs(Revenue(v, sections, 95) - 100 * target)

\* C8: the selected list has length min(3, number of vectors), is sorted by
\* non-decreasing |sum(seats * 0.95 * price) - target|, starts with a vector
\* of minimal distance, omits only vectors at least as far as every selected
\* one, and keeps vectors of equal distance in enumeration order.
C8_StableTopThree ==
    pc = "main_show" =>
        /\ Len(top_combos) = Min(3, Len(combos))
        /\ \A i \in 1..(Len(top_combos) - 1) :
              C8_Distance(top_combos[i]) <= C8_Distance(top_combos[i + 1])
        /\ \A v \in Range(combos) :
              C8_Distance(top_combos[1]) <= C8_Distance(v)
        /\ \E f \in [1..Len(top_combos) -> 1..Len(combos)] :
              /\ \A i \in 1..Len(top_combos) : top_combos[i] = combos[f[i]]
              /\ \A i, j \in 1..Len(top_combos) :
                    i < j =>
                        \/ C8_Distance(combos[f[i]]) < C8_Distance(combos[f[j]])
                        \/ /\ C8_Distance(combos[f[i]]) = C8_Distance(combos[f[j]])
                           /\ f[i] < f[j]
              /\ \A o \in 1..Len(combos) :
                    (\A i \in 1..Len(top_combos) : f[i] # o) =>
                        \A i \in 1..Len(top_combos) :
                            \/ C8_Distance(combos[f[i]]) < C8_Distance(combos[o])
                            \/ /\ C8_Distance(combos[f[i]]) = C8_Distance(combos[o])
                               /\ f[i] < o

\* four vectors were ranked: two different ones tie for the first place and
\* the one left out ties with the third
C8_Witness ==
    /\ pc = "main_show" /\ Len(combos) > 3
    /\ top_combos[1] # top_combos[2]
    /\ C8_Distance(top_combos[1]) = C8_Distance(top_combos[2])
    /\ \E o \in 1..Len(combos) :
          /\ combos[o] \notin Range(top_combos)
          /\ C8_Distance(combos[o]) = C8_Distance(top_combos[3])
    /\ top_combos[1] # combos[1]

(***************************************************************************)
(* Every trial has a draw to make: the sampled interval is never empty.    *)
(***************************************************************************)
TrialHasDraw ==
    pc = "trials" =>
        TrialCombos(file, N, global_min, global_max, margin) # { }

====
